---- MODULE Spec2Model ----
(***************************************************************************)
(* fleetTrack backend (track app): the relational store of Locations,      *)
(* Drivers, Carriers, Vehicles, Trips and TripEvents, the request handlers *)
(* of track/views.py with the serializers of track/serializers.py, and the *)
(* aggregation of track/models.py (Trip.calculate_totals, TripEvent.save). *)
(*                                                                         *)
(* Floats are modelled as integers (hours, miles, degrees).  A table is a  *)
(* set of rows, each a record with its primary key in the field id; a new  *)
(* row takes the next id after the largest one of its table.               *)
(***************************************************************************)
EXTENDS Integers, Sequences, FiniteSets, TLC

VARIABLES
    locations,   \* Location rows   [id, address, latitude, longitude]
    drivers,     \* Driver rows     [id, driver_initial, full_name, license_number]
    carriers,    \* Carrier rows    [id, name, dot_number]
    vehicles,    \* Vehicle rows    [id, truck_number, carrier]
    trips,       \* Trip rows
    events,      \* TripEvent rows
    last,        \* the last request handled and its response
    pc,          \* per in-flight request: the handler's position
    local,       \* per in-flight request: its data and the Trip object it loaded
    overlapped   \* whether two requests have been in flight at the same time

tables == <<locations, drivers, carriers, vehicles, trips, events>>
vars == <<locations, drivers, carriers, vehicles, trips, events, last, pc, local,
          overlapped>>

----------------------------------------------------------------------------
\* Bounds of the model.

\* The largest number of Trip rows a behaviour creates.
MaxTrips == 2

\* The largest primary key given where rows are deleted and created again.
MaxId == 3

\* The largest number of TripEvent rows where the seed command runs.
MaxEvents == 4

\* The values requests are drawn from.
Addresses == {"a1", "a2", "a3"}
Timestamps == {1, 2}
Requests == {1, 2}

----------------------------------------------------------------------------
\* Values of the program.

\* Python's None and SQL's NULL in a numeric column or aggregate.
None == -1

\* A foreign key that is null or was not supplied.
NoId == 0

\* A CharField that was not supplied (validated_data.pop(name, None)).
NoStr == ""

MinLatitude == -90
MaxLatitude == 90
MinLongitude == -180
MaxLongitude == 180

\* The choices with the two driving-boundary types added to them.
EVENT_TYPE_CHOICES_with_boundaries ==
    {"driving", "on_duty", "off_duty", "sleeper", "rest_break", "fuel_stop",
     "meal_break", "inspection", "loading", "unloading", "other",
     "driving_start", "driving_end"}

\* TripEvent.EVENT_TYPE_CHOICES
EVENT_TYPE_CHOICES ==
    {"driving", "on_duty", "off_duty", "sleeper", "rest_break", "fuel_stop",
     "meal_break", "inspection", "loading", "unloading", "other"}

HTTP_200_OK == 200
HTTP_201_CREATED == 201
HTTP_400_BAD_REQUEST == 400
HTTP_500_INTERNAL_SERVER_ERROR == 500

----------------------------------------------------------------------------
\* Helpers of the store.

Max(S) == CHOOSE x \in S : \A y \in S : y <= x

Ids(rows) == {r.id : r \in rows}

\* The primary key an INSERT into the table gives.
NextId(rows) == IF rows = {} THEN 1 ELSE Max(Ids(rows)) + 1

Row(rows, id) == CHOOSE r \in rows : r.id = id

\* dict.get(key, default) and dict.pop(key, default) of a Python dict (a
\* function): the value under the key, the default without it.
Get(d, k, default) == IF k \in DOMAIN d THEN d[k] ELSE default

DB == [locations |-> locations, drivers |-> drivers, carriers |-> carriers,
       vehicles |-> vehicles, trips |-> trips, events |-> events]

Commit(db) ==
    /\ locations' = db.locations
    /\ drivers' = db.drivers
    /\ carriers' = db.carriers
    /\ vehicles' = db.vehicles
    /\ trips' = db.trips
    /\ events' = db.events

----------------------------------------------------------------------------
\* Aggregation (track/models.py).

RECURSIVE SumField(_, _)
SumField(rows, field) ==
    IF rows = {} THEN 0
    ELSE LET r == CHOOSE x \in rows : TRUE
         IN r[field] + SumField(rows \ {r}, field)

\* Sum(field) over the rows: NULL when there is no row.
Sum(rows, field) == IF rows = {} THEN None ELSE SumField(rows, field)

\* self.events: the TripEvents of a trip.
EventsOf(evts, tripId) == {e \in evts : e.trip = tripId}

\* self.events.aggregate(x=Sum(field, filter=Q(event_type=ty)))
AggregateSum(evts, tripId, ty, field) ==
    Sum({e \in EventsOf(evts, tripId) : e.event_type = ty}, field)

\* Python's `value or 0.0`.
OrZero(value) == IF value = None \/ value = 0 THEN 0 ELSE value

\* The hours aggregate with the sleeper sum filtered on "off_duty" (a copied
\* filter left unchanged).
aggregate_hours_copied_filter(evts, trip) ==
    [trip EXCEPT
        !.total_driving_hours =
            OrZero(AggregateSum(evts, trip.id, "driving", "duration")),
        !.total_on_duty_hours =
            OrZero(AggregateSum(evts, trip.id, "on_duty", "duration")),
        !.total_off_duty_hours =
            OrZero(AggregateSum(evts, trip.id, "off_duty", "duration")),
        !.total_sleeper_hours =
            OrZero(AggregateSum(evts, trip.id, "off_duty", "duration"))]

\* Trip.calculate_totals, first query: hours_data is aggregated over the
\* stored events and the four hour totals of the Trip object are assigned.
aggregate_hours(evts, trip) ==
    [trip EXCEPT
        !.total_driving_hours =
            OrZero(AggregateSum(evts, trip.id, "driving", "duration")),
        !.total_on_duty_hours =
            OrZero(AggregateSum(evts, trip.id, "on_duty", "duration")),
        !.total_off_duty_hours =
            OrZero(AggregateSum(evts, trip.id, "off_duty", "duration")),
        !.total_sleeper_hours =
            OrZero(AggregateSum(evts, trip.id, "sleeper", "duration"))]

\* Trip.calculate_totals, second query: miles_data is aggregated over the
\* stored driving events and total_miles_driving is assigned.
aggregate_miles(evts, trip) ==
    [trip EXCEPT
        !.total_miles_driving =
            OrZero(AggregateSum(evts, trip.id, "driving", "miles_driven"))]

\* Trip.calculate_totals up to its save, with no write between its queries.
calculate_totals(evts, trip) ==
    aggregate_miles(evts, aggregate_hours(evts, trip))

\* calculate_totals without its self.save(): the row is left as it was.
SaveTripSkipped(trps, trip) == trps

\* Model.save() of a Trip object: the row with its id takes every field of
\* the object.
SaveTrip(trps, trip) == {t \in trps : t.id # trip.id} \cup {trip}

\* TripEvent.save: the event row is written, then the totals of self.trip
\* are recomputed and that Trip object is saved.  Gives the store and the
\* Trip object after it.
TripEventSave(db, trip, row) ==
    LET evts == {e \in db.events : e.id # row.id} \cup {row}
        obj == calculate_totals(evts, trip)
    IN [db |-> [db EXCEPT !.events = evts, !.trips = SaveTrip(@, obj)],
        trip |-> obj]

----------------------------------------------------------------------------
\* Serializers (track/serializers.py).

\* LocationSerializer(data=...).is_valid(): the fields the serializer derives
\* from the Location model.  address is unique=True, so the serializer
\* carries a uniqueness validator on it: an address some stored Location
\* already has is refused.  latitude and longitude carry the range
\* validators of the model.
LocationIsValid(locs, data) ==
    /\ "address" \in DOMAIN data
    /\ "latitude" \in DOMAIN data
    /\ "longitude" \in DOMAIN data
    /\ ~ \E l \in locs : l.address = data.address
    /\ MinLatitude <= data.latitude /\ data.latitude <= MaxLatitude
    /\ MinLongitude <= data.longitude /\ data.longitude <= MaxLongitude

\* LocationSerializer.create: Location.objects.get_or_create(address=...).
LocationCreate(locs, data) ==
    IF \E l \in locs : l.address = data.address
    THEN [rows |-> locs, row |-> CHOOSE l \in locs : l.address = data.address]
    ELSE LET row == [id |-> NextId(locs), address |-> data.address,
                     latitude |-> data.latitude, longitude |-> data.longitude]
         IN [rows |-> locs \cup {row}, row |-> row]

\* TripEventCreateSerializer(data=...).is_valid(): event_type is one of the
\* choices, timestamp and location_data are required, duration and
\* miles_driven (optional) are not negative.
EventIsValid(data) ==
    /\ "event_type" \in DOMAIN data
    /\ data.event_type \in EVENT_TYPE_CHOICES
    /\ "timestamp" \in DOMAIN data
    /\ "location_data" \in DOMAIN data
    /\ Get(data, "duration", 0) >= 0
    /\ Get(data, "miles_driven", 0) >= 0

\* TripEventCreateSerializer.create with the trip given to save(trip=trip):
\* the location data is validated and saved, then the TripEvent is created
\* (TripEvent.objects.create calls TripEvent.save).
TripEventCreate(db, trip, data) ==
    IF ~LocationIsValid(db.locations, data.location_data)
    THEN [raised |-> "ValidationError", db |-> db, trip |-> trip]
    ELSE LET loc == LocationCreate(db.locations, data.location_data)
             db1 == [db EXCEPT !.locations = loc.rows]
             row == [id |-> NextId(db1.events),
                     trip |-> trip.id,
                     location |-> loc.row.id,
                     event_type |-> data.event_type,
                     timestamp |-> data.timestamp,
                     duration |-> Get(data, "duration", 0),
                     miles_driven |-> Get(data, "miles_driven", 0)]
             saved == TripEventSave(db1, trip, row)
         IN [raised |-> "", db |-> saved.db, trip |-> saved.trip]

\* The fields TripCreateSerializer.Meta declares: every other key of a
\* request body is dropped by validation.  (date, shipper_and_commodity,
\* cycle_rule and remarks are not modelled.)
TripCreateFields ==
    {"driver", "co_driver", "vehicle", "total_mileage_today", "initial_events",
     "current_location", "pickup_location", "dropoff_location",
     "driver_initial", "carrier_name", "truck_number"}

\* TripCreateSerializer(data=...).is_valid(): driver and vehicle are the
\* model's non-null foreign keys, so they are required and must name a
\* stored row; co_driver is optional and may be null; initial_events is
\* declared without required=False, so it is required (an empty list is
\* accepted) and each entry passes the event serializer's validation.
TripCreateIsValid(db, req) ==
    /\ "driver" \in DOMAIN req
    /\ req.driver \in Ids(db.drivers)
    /\ "vehicle" \in DOMAIN req
    /\ req.vehicle \in Ids(db.vehicles)
    /\ "co_driver" \in DOMAIN req =>
           (req.co_driver = NoId \/ req.co_driver \in Ids(db.drivers))
    /\ "initial_events" \in DOMAIN req
    /\ \A i \in 1..Len(req.initial_events) : EventIsValid(req.initial_events[i])

\* serializer.validated_data: the declared fields the request supplied.
ValidatedData(req, fields) == [k \in DOMAIN req \cap fields |-> req[k]]

\* `timezone` in serializers.py is what `from time import timezone` binds:
\* the integer UTC offset of the time module, which has no attribute now.
timezone_has_now == FALSE

\* timezone.now()
timezone_now(now) ==
    IF timezone_has_now THEN [raised |-> "", value |-> now]
    ELSE [raised |-> "AttributeError", value |-> None]

LegacyFields == {"current_location", "pickup_location", "dropoff_location"}

\* One entry of legacy_locations.
LegacyEvent(vd, field, type, now) ==
    IF field \in DOMAIN vd
    THEN << [location_data |-> vd[field], event_type |-> type,
             timestamp |-> timezone_now(now).value] >>
    ELSE << >>

\* legacy_locations of TripCreateSerializer.create, in the order appended.
legacy_locations(vd, now) ==
    LegacyEvent(vd, "current_location", "other", now)
    \o LegacyEvent(vd, "pickup_location", "loading", now)
    \o LegacyEvent(vd, "dropoff_location", "unloading", now)

\* Driver resolution that does not look at the driver reference: the
\* shorthand is resolved whenever it is given.
ResolveDriverShorthandFirst(db, vd) ==
    LET driver_initial == Get(vd, "driver_initial", NoStr)
    IN IF driver_initial # NoStr
       THEN IF \E d \in db.drivers : d.driver_initial = driver_initial
            THEN [db |-> db,
                  driver |-> (CHOOSE d \in db.drivers :
                                  d.driver_initial = driver_initial).id]
            ELSE LET row == [id |-> NextId(db.drivers),
                             driver_initial |-> driver_initial,
                             full_name |-> driver_initial,
                             license_number |-> "LIC_" \o driver_initial]
                 IN [db |-> [db EXCEPT !.drivers = @ \cup {row}],
                     driver |-> row.id]
       ELSE [db |-> db, driver |-> Get(vd, "driver", NoId)]

\* Driver resolution of TripCreateSerializer.create: get_or_create by
\* driver_initial when the shorthand is given and no driver reference is.
ResolveDriver(db, vd) ==
    LET driver_initial == Get(vd, "driver_initial", NoStr)
    IN IF driver_initial # NoStr /\ Get(vd, "driver", NoId) = NoId
       THEN IF \E d \in db.drivers : d.driver_initial = driver_initial
            THEN [db |-> db,
                  driver |-> (CHOOSE d \in db.drivers :
                                  d.driver_initial = driver_initial).id]
            ELSE LET row == [id |-> NextId(db.drivers),
                             driver_initial |-> driver_initial,
                             full_name |-> driver_initial,
                             license_number |-> "LIC_" \o driver_initial]
                 IN [db |-> [db EXCEPT !.drivers = @ \cup {row}],
                     driver |-> row.id]
       ELSE [db |-> db, driver |-> Get(vd, "driver", NoId)]

\* Carrier.objects.first(): the row with the smallest primary key.
FirstCarrier(rows) == CHOOSE c \in rows : \A o \in rows : c.id <= o.id

\* Carrier resolution: by carrier_name if given, else the first stored
\* Carrier, else a new default Carrier.  (carrier_name[:10] is the name
\* itself for the names of at most ten characters used here.)
ResolveCarrier(db, carrier_name) ==
    IF carrier_name # NoStr
    THEN IF \E c \in db.carriers : c.name = carrier_name
         THEN [db |-> db,
               carrier |-> (CHOOSE c \in db.carriers : c.name = carrier_name).id]
         ELSE LET row == [id |-> NextId(db.carriers), name |-> carrier_name,
                          dot_number |-> "DOT_" \o carrier_name]
              IN [db |-> [db EXCEPT !.carriers = @ \cup {row}],
                  carrier |-> row.id]
    ELSE IF db.carriers # {}
         THEN [db |-> db, carrier |-> FirstCarrier(db.carriers).id]
         ELSE LET row == [id |-> NextId(db.carriers), name |-> "Default Carrier",
                          dot_number |-> "DOT_DEFAULT"]
              IN [db |-> [db EXCEPT !.carriers = @ \cup {row}],
                  carrier |-> row.id]

\* Vehicle resolution of TripCreateSerializer.create: when truck_number is
\* given and no vehicle reference is, the carrier is resolved and the
\* Vehicle is get_or_create'd by truck_number (carrier only in defaults).
ResolveVehicle(db, vd) ==
    LET truck_number == Get(vd, "truck_number", NoStr)
    IN IF truck_number # NoStr /\ Get(vd, "vehicle", NoId) = NoId
       THEN LET c == ResolveCarrier(db, Get(vd, "carrier_name", NoStr))
            IN IF \E v \in c.db.vehicles : v.truck_number = truck_number
               THEN [db |-> c.db,
                     vehicle |-> (CHOOSE v \in c.db.vehicles :
                                      v.truck_number = truck_number).id]
               ELSE LET row == [id |-> NextId(c.db.vehicles),
                                truck_number |-> truck_number,
                                carrier |-> c.carrier]
                    IN [db |-> [c.db EXCEPT !.vehicles = @ \cup {row}],
                        vehicle |-> row.id]
       ELSE [db |-> db, vehicle |-> Get(vd, "vehicle", NoId)]

\* Trip.objects.create(**validated_data): the fields given, the model's
\* defaults for the others.
NewTrip(trps, driver, vehicle, vd) ==
    [id |-> NextId(trps),
     driver |-> driver,
     co_driver |-> Get(vd, "co_driver", NoId),
     vehicle |-> vehicle,
     total_miles_driving |-> 0,
     total_mileage_today |-> Get(vd, "total_mileage_today", 0),
     total_driving_hours |-> 0,
     total_on_duty_hours |-> 0,
     total_off_duty_hours |-> 0,
     total_sleeper_hours |-> 0,
     is_completed |-> FALSE]

\* The loop over all_events of TripCreateSerializer.create: an entry the
\* event serializer finds invalid is passed over; an entry whose location
\* data is refused raises out of the loop.
RECURSIVE CreateEvents(_, _, _)
CreateEvents(db, trip, evs) ==
    IF evs = << >> THEN [raised |-> "", db |-> db, trip |-> trip]
    ELSE IF ~EventIsValid(Head(evs)) THEN CreateEvents(db, trip, Tail(evs))
    ELSE LET r == TripEventCreate(db, trip, Head(evs))
         IN IF r.raised # "" THEN r
            ELSE CreateEvents(r.db, r.trip, Tail(evs))

\* The body of TripCreateSerializer.create.
TripCreateBody(db, vd, now) ==
    IF (LegacyFields \cap DOMAIN vd) # {} /\ timezone_now(now).raised # ""
    THEN [raised |-> timezone_now(now).raised, db |-> db, trip |-> NoId]
    ELSE LET d == ResolveDriver(db, vd)
             v == ResolveVehicle(d.db, vd)
         IN IF d.driver = NoId \/ v.vehicle = NoId
            THEN [raised |-> "IntegrityError", db |-> v.db, trip |-> NoId]
            ELSE LET trip == NewTrip(v.db.trips, d.driver, v.vehicle, vd)
                     db1 == [v.db EXCEPT !.trips = @ \cup {trip}]
                     r == CreateEvents(db1, trip,
                              Get(vd, "initial_events", << >>)
                              \o legacy_locations(vd, now))
                 IN [raised |-> r.raised, db |-> r.db, trip |-> trip.id]

\* create without @transaction.atomic: the writes made before the exception
\* stay.
TransactionNotUndone(before, out) == out

\* @transaction.atomic: an exception leaving the block undoes its writes.
TransactionAtomic(before, out) ==
    IF out.raised # "" THEN [out EXCEPT !.db = before] ELSE out

\* TripCreateSerializer.create.
TripCreate(db, vd, now) == TransactionAtomic(db, TripCreateBody(db, vd, now))

\* The response status of an exception leaving a view: a ValidationError is
\* answered 400, any other exception 500.
StatusOf(raised, ok) ==
    IF raised = "" THEN ok
    ELSE IF raised = "ValidationError" THEN HTTP_400_BAD_REQUEST
    ELSE HTTP_500_INTERNAL_SERVER_ERROR

----------------------------------------------------------------------------
\* Views (track/views.py), each request handled from start to end.

\* A request handled alone leaves the in-flight requests as they are.
Alone == UNCHANGED <<pc, local, overlapped>>

Response(op, status, trip, req) ==
    [op |-> op, status |-> status, trip |-> trip, req |-> req]

\* DriverViewSet.create: DriverSerializer refuses a driver_initial or a
\* license_number some Driver already has.
CreateDriver(req) ==
    /\ Alone
    /\ IF \E d \in drivers : d.driver_initial = req.driver_initial
                             \/ d.license_number = req.license_number
       THEN /\ UNCHANGED tables
            /\ last' = Response("create_driver", HTTP_400_BAD_REQUEST, NoId, req)
       ELSE /\ drivers' = drivers \cup
                   {[id |-> NextId(drivers),
                     driver_initial |-> req.driver_initial,
                     full_name |-> req.full_name,
                     license_number |-> req.license_number]}
            /\ UNCHANGED <<locations, carriers, vehicles, trips, events>>
            /\ last' = Response("create_driver", HTTP_201_CREATED, NoId, req)

\* CarrierViewSet.create: CarrierSerializer refuses a name or a dot_number
\* some Carrier already has.
CreateCarrier(req) ==
    /\ Alone
    /\ IF \E c \in carriers : c.name = req.name \/ c.dot_number = req.dot_number
       THEN /\ UNCHANGED tables
            /\ last' = Response("create_carrier", HTTP_400_BAD_REQUEST, NoId, req)
       ELSE /\ carriers' = carriers \cup
                   {[id |-> NextId(carriers), name |-> req.name,
                     dot_number |-> req.dot_number]}
            /\ UNCHANGED <<locations, drivers, vehicles, trips, events>>
            /\ last' = Response("create_carrier", HTTP_201_CREATED, NoId, req)

\* VehicleViewSet.create: VehicleSerializer refuses a truck_number some
\* Vehicle already has and a carrier that is not stored.
CreateVehicle(req) ==
    /\ Alone
    /\ IF \/ \E v \in vehicles : v.truck_number = req.truck_number
          \/ req.carrier \notin Ids(carriers)
       THEN /\ UNCHANGED tables
            /\ last' = Response("create_vehicle", HTTP_400_BAD_REQUEST, NoId, req)
       ELSE /\ vehicles' = vehicles \cup
                   {[id |-> NextId(vehicles), truck_number |-> req.truck_number,
                     carrier |-> req.carrier]}
            /\ UNCHANGED <<locations, drivers, carriers, trips, events>>
            /\ last' = Response("create_vehicle", HTTP_201_CREATED, NoId, req)

\* TripViewSet.create (CreateModelMixin with TripCreateSerializer): the
\* request is validated, then TripCreateSerializer.create runs.
CreateTrip(req, now) ==
    /\ Alone
    /\ Cardinality(trips) < MaxTrips
    /\ IF ~TripCreateIsValid(DB, req)
       THEN /\ UNCHANGED tables
            /\ last' = Response("create_trip", HTTP_400_BAD_REQUEST, NoId, req)
       ELSE LET out == TripCreate(DB, ValidatedData(req, TripCreateFields), now)
            IN /\ Commit(out.db)
               /\ last' = Response("create_trip",
                                   StatusOf(out.raised, HTTP_201_CREATED),
                                   IF out.raised = "" THEN out.trip ELSE NoId,
                                   req)

\* TripViewSet.add_event: the trip is loaded, the event data validated and
\* saved with that trip.
AddEvent(t, data) ==
    /\ Alone
    /\ t \in Ids(trips)
    /\ IF ~EventIsValid(data)
       THEN /\ UNCHANGED tables
            /\ last' = Response("add_event", HTTP_400_BAD_REQUEST, t, data)
       ELSE LET out == TripEventCreate(DB, Row(trips, t), data)
            IN /\ Commit(out.db)
               /\ last' = Response("add_event",
                                   StatusOf(out.raised, HTTP_201_CREATED), t, data)

\* The fields of TripEventSerializer a client may write.
TripEventWritable == {"event_type", "timestamp", "duration", "miles_driven", "location"}

\* TripEventViewSet.partial_update (UpdateModelMixin with
\* TripEventSerializer): the fields given are validated and assigned, and
\* the event is saved (TripEvent.save, with the trip loaded with the event).
UpdateEvent(e, req) ==
    /\ Alone
    /\ e \in Ids(events)
    /\ LET vd == ValidatedData(req, TripEventWritable)
           row == Row(events, e)
       IN IF \/ Get(vd, "event_type", "other") \notin EVENT_TYPE_CHOICES
             \/ Get(vd, "duration", 0) < 0
             \/ Get(vd, "miles_driven", 0) < 0
             \/ Get(vd, "location", row.location) \notin Ids(locations)
          THEN /\ UNCHANGED tables
               /\ last' = Response("update_event", HTTP_400_BAD_REQUEST, row.trip, req)
          ELSE LET new == [k \in DOMAIN row |-> Get(vd, k, row[k])]
                   saved == TripEventSave(DB, Row(trips, row.trip), new)
               IN /\ Commit(saved.db)
                  /\ last' = Response("update_event", HTTP_200_OK, row.trip, req)

\* TripSerializer with no read_only_fields: the totals are writable too.
TripWritableWithTotals ==
    {"driver", "co_driver", "vehicle", "total_mileage_today", "is_completed",
     "total_miles_driving", "total_driving_hours", "total_on_duty_hours",
     "total_off_duty_hours", "total_sleeper_hours"}

\* The fields of TripSerializer a client may write: Meta.fields without the
\* read_only_fields and the declared read-only and method fields.
TripWritable == {"driver", "co_driver", "vehicle", "total_mileage_today", "is_completed"}

\* TripViewSet.partial_update (UpdateModelMixin with TripSerializer).
UpdateTrip(t, req) ==
    /\ Alone
    /\ t \in Ids(trips)
    /\ LET vd == ValidatedData(req, TripWritable)
           row == Row(trips, t)
       IN IF \/ Get(vd, "driver", row.driver) \notin Ids(drivers)
             \/ Get(vd, "vehicle", row.vehicle) \notin Ids(vehicles)
             \/ Get(vd, "co_driver", NoId) \notin Ids(drivers) \cup {NoId}
          THEN /\ UNCHANGED tables
               /\ last' = Response("update_trip", HTTP_400_BAD_REQUEST, t, req)
          ELSE /\ trips' = SaveTrip(trips, [k \in DOMAIN row |-> Get(vd, k, row[k])])
               /\ UNCHANGED <<locations, drivers, carriers, vehicles, events>>
               /\ last' = Response("update_trip", HTTP_200_OK, t, req)

\* TripViewSet.complete
Complete(t) ==
    /\ Alone
    /\ t \in Ids(trips)
    /\ trips' = SaveTrip(trips, [Row(trips, t) EXCEPT !.is_completed = TRUE])
    /\ UNCHANGED <<locations, drivers, carriers, vehicles, events>>
    /\ last' = Response("complete", HTTP_200_OK, t, << >>)

----------------------------------------------------------------------------
\* The requests the behaviours are drawn from.

LocationData(address, latitude) ==
    [address |-> address, latitude |-> latitude, longitude |-> 0]

EventData(type, timestamp, duration, miles, address, latitude) ==
    [event_type |-> type, timestamp |-> timestamp, duration |-> duration,
     miles_driven |-> miles, location_data |-> LocationData(address, latitude)]

DriverReqs ==
    {[driver_initial |-> "AB", full_name |-> "Ann", license_number |-> "L1"]}

CarrierReqs == {[name |-> "ACME", dot_number |-> "D1"]}

VehicleReqs == {[truck_number |-> "TRK-1", carrier |-> 1]}

\* A trip request with explicit references and the given initial events.
TripReq(initial_events) ==
    ("driver" :> 1) @@ ("vehicle" :> 1) @@ ("initial_events" :> initial_events)

\* (event_type, duration, miles_driven) of the events requests carry.
EventKinds ==
    {<<"driving", 2, 3>>, <<"on_duty", 1, 4>>, <<"off_duty", 2, 0>>,
     <<"sleeper", 1, 0>>, <<"other", 0, 0>>}

ApiAddresses == {"a1", "a2"}

ApiEvents ==
    {EventData(k[1], 1, k[2], k[3], a, 45) : k \in EventKinds, a \in ApiAddresses}

ApiTripReqs ==
    {TripReq(<< >>),
     TripReq(<<EventData("driving", 1, 2, 3, "a1", 45),
               EventData("on_duty", 1, 1, 4, "a2", 45)>>)}

ApiEventPatches ==
    {("event_type" :> "driving") @@ ("duration" :> 2) @@ ("miles_driven" :> 3),
     ("event_type" :> "sleeper") @@ ("duration" :> 1) @@ ("miles_driven" :> 0)}

ApiTripPatches ==
    {("is_completed" :> FALSE) @@ ("total_driving_hours" :> 9)}

----------------------------------------------------------------------------
\* The store after migration, with no request handled.
Init ==
    /\ locations = {}
    /\ drivers = {}
    /\ carriers = {}
    /\ vehicles = {}
    /\ trips = {}
    /\ events = {}
    /\ last = Response("none", 0, NoId, << >>)
    /\ pc = [r \in Requests |-> "idle"]
    /\ local = [r \in Requests |-> << >>]
    /\ overlapped = FALSE

\* The endpoints that fill the Driver, Carrier and Vehicle tables.
Setup ==
    \/ \E req \in DriverReqs : CreateDriver(req)
    \/ \E req \in CarrierReqs : CreateCarrier(req)
    \/ \E req \in VehicleReqs : CreateVehicle(req)

\* The requests of the API, one at a time.
Next ==
    \/ Setup
    \/ \E req \in ApiTripReqs, now \in Timestamps : CreateTrip(req, now)
    \/ \E t \in Ids(trips), data \in ApiEvents : AddEvent(t, data)
    \/ \E e \in Ids(events), req \in ApiEventPatches : UpdateEvent(e, req)
    \/ \E t \in Ids(trips), req \in ApiTripPatches : UpdateTrip(t, req)
    \/ \E t \in Ids(trips) : Complete(t)

Spec == Init /\ [][Next]_vars

----------------------------------------------------------------------------
\* Trip intake: the requests of the creation flow.

IntakeE1 == EventData("driving", 1, 2, 3, "a1", 45)
IntakeE2 == EventData("on_duty", 2, 1, 0, "a2", 45)

\* One request per shape of the creation body.
IntakeTripReqs ==
    {TripReq(<< >>),
     TripReq(<<IntakeE1>>),
     TripReq(<<IntakeE1, IntakeE2>>),
     \* the second entry's latitude is out of range
     TripReq(<<IntakeE2, EventData("driving", 1, 1, 1, "a3", 95)>>),
     \* the second entry's duration is negative
     TripReq(<<IntakeE1, EventData("driving", 1, -2, 1, "a2", 45)>>),
     \* two entries at one address
     TripReq(<<IntakeE2, EventData("sleeper", 2, 1, 0, "a2", 45)>>),
     \* legacy single-location fields
     TripReq(<< >>) @@ ("current_location" :> LocationData("a3", 45)),
     TripReq(<< >>) @@ ("pickup_location" :> LocationData("a3", 45))
                    @@ ("dropoff_location" :> LocationData("a3", 95)),
     \* the shorthand fields alone, and with an empty event list
     ("driver_initial" :> "AB") @@ ("truck_number" :> "TRK-1"),
     ("driver_initial" :> "AB") @@ ("truck_number" :> "TRK-1")
         @@ ("initial_events" :> << >>),
     \* explicit references together with the shorthand fields
     TripReq(<< >>) @@ ("driver_initial" :> "CD") @@ ("truck_number" :> "TRK-2")
                    @@ ("carrier_name" :> "Other"),
     \* totals in the body
     TripReq(<< >>) @@ ("total_mileage_today" :> 7) @@ ("total_driving_hours" :> 9)}

IntakeEvents == {IntakeE1, IntakeE2, EventData("driving", 1, 1, 1, "a3", 95)}

IntakeTripPatches ==
    {("total_mileage_today" :> 5) @@ ("total_miles_driving" :> 9)}

\* Trip creation, with the requests that fill the tables it reads.
NextIntake ==
    \/ Setup
    \/ \E req \in IntakeTripReqs, now \in Timestamps : CreateTrip(req, now)
    \/ \E t \in Ids(trips), data \in IntakeEvents : AddEvent(t, data)
    \/ \E t \in Ids(trips), req \in IntakeTripPatches : UpdateTrip(t, req)

SpecIntake == Init /\ [][NextIntake]_vars

----------------------------------------------------------------------------
\* add-event requests in flight together.  No transaction wraps add_event,
\* so each query of the handler takes effect on its own: the load of the
\* trip, the writes of the location and the event, the two aggregate
\* queries of calculate_totals and the save of the Trip object.  (The
\* queries that validate and write the location and the event are one step.)

InFlight(r) == pc[r] # "idle"

\* No request is in flight.
Quiet == \A r \in Requests : ~InFlight(r)

\* TripViewSet.add_event, trip = self.get_object() and
\* serializer.is_valid(): the Trip object is loaded; invalid event data is
\* answered 400.
BeginAddEvent(r, t, data) ==
    /\ pc[r] = "idle"
    /\ t \in Ids(trips)
    /\ overlapped' = (overlapped \/ \E o \in Requests \ {r} : InFlight(o))
    /\ UNCHANGED tables
    /\ IF ~EventIsValid(data)
       THEN /\ last' = Response("add_event", HTTP_400_BAD_REQUEST, t, data)
            /\ UNCHANGED <<pc, local>>
       ELSE /\ pc' = [pc EXCEPT ![r] = "insert"]
            /\ local' = [local EXCEPT ![r] = [trip |-> Row(trips, t), data |-> data]]
            /\ UNCHANGED last

\* TripEventCreateSerializer.create up to super().save() of TripEvent.save:
\* the location is validated and saved and the event row inserted.
InsertEvent(r) ==
    /\ pc[r] = "insert"
    /\ UNCHANGED overlapped
    /\ LET data == local[r].data
           trip == local[r].trip
       IN IF ~LocationIsValid(locations, data.location_data)
          THEN /\ UNCHANGED tables
               /\ pc' = [pc EXCEPT ![r] = "idle"]
               /\ local' = [local EXCEPT ![r] = << >>]
               /\ last' = Response("add_event", HTTP_400_BAD_REQUEST, trip.id, data)
          ELSE LET loc == LocationCreate(locations, data.location_data)
               IN /\ locations' = loc.rows
                  /\ events' = events \cup
                        {[id |-> NextId(events),
                          trip |-> trip.id,
                          location |-> loc.row.id,
                          event_type |-> data.event_type,
                          timestamp |-> data.timestamp,
                          duration |-> Get(data, "duration", 0),
                          miles_driven |-> Get(data, "miles_driven", 0)]}
                  /\ UNCHANGED <<drivers, carriers, vehicles, trips, last>>
                  /\ pc' = [pc EXCEPT ![r] = "aggregate_hours"]
                  /\ UNCHANGED local

\* Trip.calculate_totals, the hours query and its assignments.
AggregateHours(r) ==
    /\ pc[r] = "aggregate_hours"
    /\ local' = [local EXCEPT ![r].trip = aggregate_hours(events, @)]
    /\ pc' = [pc EXCEPT ![r] = "aggregate_miles"]
    /\ UNCHANGED <<tables, last, overlapped>>

\* Trip.calculate_totals, the miles query and its assignment.
AggregateMiles(r) ==
    /\ pc[r] = "aggregate_miles"
    /\ local' = [local EXCEPT ![r].trip = aggregate_miles(events, @)]
    /\ pc' = [pc EXCEPT ![r] = "save"]
    /\ UNCHANGED <<tables, last, overlapped>>

\* Trip.calculate_totals, self.save(), and the 201 response of add_event.
SaveTotals(r) ==
    /\ pc[r] = "save"
    /\ trips' = SaveTrip(trips, local[r].trip)
    /\ UNCHANGED <<locations, drivers, carriers, vehicles, events, overlapped>>
    /\ last' = Response("add_event", HTTP_201_CREATED, local[r].trip.id, local[r].data)
    /\ pc' = [pc EXCEPT ![r] = "idle"]
    /\ local' = [local EXCEPT ![r] = << >>]

ConcEvents ==
    {EventData("driving", 1, 2, 3, "a1", 45),
     EventData("driving", 2, 1, 5, "a2", 45)}

\* The tables are filled while no request is in flight; then add-event
\* requests run, their steps interleaved in any order.
NextConcurrent ==
    \/ Quiet /\ Setup
    \/ Quiet /\ \E now \in Timestamps : CreateTrip(TripReq(<< >>), now)
    \/ \E r \in Requests, t \in Ids(trips), data \in ConcEvents :
          BeginAddEvent(r, t, data)
    \/ \E r \in Requests : InsertEvent(r)
    \/ \E r \in Requests : AggregateHours(r)
    \/ \E r \in Requests : AggregateMiles(r)
    \/ \E r \in Requests : SaveTotals(r)

SpecConcurrent == Init /\ [][NextConcurrent]_vars

----------------------------------------------------------------------------
\* complete requests in flight with add-event requests.  complete loads the
\* Trip object, sets is_completed on it and saves it; Model.save() writes
\* every field of the object, as calculate_totals' save does.

\* TripViewSet.complete, trip = self.get_object()
BeginComplete(r, t) ==
    /\ pc[r] = "idle"
    /\ t \in Ids(trips)
    /\ overlapped' = (overlapped \/ \E o \in Requests \ {r} : InFlight(o))
    /\ pc' = [pc EXCEPT ![r] = "complete"]
    /\ local' = [local EXCEPT ![r] = [trip |-> Row(trips, t), data |-> << >>]]
    /\ UNCHANGED <<tables, last>>

\* TripViewSet.complete, trip.is_completed = True; trip.save() and the
\* response.
SaveComplete(r) ==
    /\ pc[r] = "complete"
    /\ trips' = SaveTrip(trips, [local[r].trip EXCEPT !.is_completed = TRUE])
    /\ UNCHANGED <<locations, drivers, carriers, vehicles, events, overlapped>>
    /\ last' = Response("complete", HTTP_200_OK, local[r].trip.id, << >>)
    /\ pc' = [pc EXCEPT ![r] = "idle"]
    /\ local' = [local EXCEPT ![r] = << >>]

\* The tables are filled while no request is in flight; then add-event and
\* complete requests run, their steps interleaved in any order.
NextCompleting ==
    \/ Quiet /\ Setup
    \/ Quiet /\ \E now \in Timestamps : CreateTrip(TripReq(<< >>), now)
    \/ \E r \in Requests, t \in Ids(trips), data \in ConcEvents :
          BeginAddEvent(r, t, data)
    \/ \E r \in Requests : InsertEvent(r)
    \/ \E r \in Requests : AggregateHours(r)
    \/ \E r \in Requests : AggregateMiles(r)
    \/ \E r \in Requests : SaveTotals(r)
    \/ \E r \in Requests, t \in Ids(trips) : BeginComplete(r, t)
    \/ \E r \in Requests : SaveComplete(r)

SpecCompleting == Init /\ [][NextCompleting]_vars

----------------------------------------------------------------------------
\* Creation on the trip-events endpoint.

\* TripEventCreateSerializer.create as TripEventViewSet.create runs it, with
\* no trip given to save(): the location data is validated and saved, then
\* TripEvent.objects.create(location=location, **validated_data) inserts a
\* row with no trip, which the NOT NULL column of the foreign key refuses
\* (IntegrityError).  The view opens no transaction, so the Location row
\* written before the exception stays.
TripEventCreateWithoutTrip(db, data) ==
    IF ~LocationIsValid(db.locations, data.location_data)
    THEN [raised |-> "ValidationError", db |-> db]
    ELSE LET loc == LocationCreate(db.locations, data.location_data)
         IN [raised |-> "IntegrityError",
             db |-> [db EXCEPT !.locations = loc.rows]]

\* TripEventViewSet.create (CreateModelMixin with TripEventCreateSerializer,
\* whose fields carry no trip).
CreateTripEvent(data) ==
    /\ Alone
    /\ IF ~EventIsValid(data)
       THEN /\ UNCHANGED tables
            /\ last' = Response("create_event", HTTP_400_BAD_REQUEST, NoId, data)
       ELSE LET out == TripEventCreateWithoutTrip(DB, data)
            IN /\ Commit(out.db)
               /\ last' = Response("create_event",
                                   StatusOf(out.raised, HTTP_201_CREATED),
                                   NoId, data)

\* Events as the two creating endpoints are given them: well-formed, with a
\* latitude out of range, with a negative duration.
CreationEvents ==
    {EventData("driving", 1, 2, 3, "a1", 45),
     EventData("on_duty", 2, 1, 0, "a2", 45),
     EventData("driving", 1, 1, 1, "a3", 95),
     EventData("driving", 1, -2, 1, "a3", 45)}

NextEventCreation ==
    \/ Setup
    \/ \E now \in Timestamps : CreateTrip(TripReq(<< >>), now)
    \/ \E t \in Ids(trips), data \in CreationEvents : AddEvent(t, data)
    \/ \E data \in CreationEvents : CreateTripEvent(data)

SpecEventCreation == Init /\ [][NextEventCreation]_vars

----------------------------------------------------------------------------
\* Deletion through the ORM (no view of track/views.py deletes; the models
\* say what a delete takes with it).

\* TripEvent.delete(): Model.delete is not overridden, so the row goes and
\* nothing else is run.
delete_event(db, e) == [db EXCEPT !.events = {x \in @ : x.id # e}]

\* Location.delete(): TripEvent.location is on_delete=CASCADE, so the events
\* at the location go with it.
delete_location(db, l) ==
    [db EXCEPT !.locations = {x \in @ : x.id # l},
               !.events = {x \in @ : x.location # l}]

\* Trip.delete() taking, beside the trip's events, the Locations they were at.
delete_trip_and_locations(db, t) ==
    [db EXCEPT !.trips = {x \in @ : x.id # t},
               !.events = {x \in @ : x.trip # t},
               !.locations = {x \in @ : ~ \E e \in db.events :
                                            e.trip = t /\ e.location = x.id}]

\* Trip.delete(): TripEvent.trip is on_delete=CASCADE, so the trip's events
\* go with it; Trip's own foreign keys point away from it.
delete_trip(db, t) ==
    [db EXCEPT !.trips = {x \in @ : x.id # t},
               !.events = {x \in @ : x.trip # t}]

\* What Model.delete() returns: the number of TripEvent rows it deleted.
Deleted(before, after) ==
    [TripEvent |-> Cardinality(before.events) - Cardinality(after.events)]

DeleteEvent(e) ==
    /\ Alone
    /\ e \in Ids(events)
    /\ Commit(delete_event(DB, e))
    /\ last' = Response("delete_event", 0, Row(events, e).trip,
                        Deleted(DB, delete_event(DB, e)))

DeleteLocation(l) ==
    /\ Alone
    /\ l \in Ids(locations)
    /\ Commit(delete_location(DB, l))
    /\ last' = Response("delete_location", 0, NoId,
                        Deleted(DB, delete_location(DB, l)))

DeleteTrip(t) ==
    /\ Alone
    /\ t \in Ids(trips)
    /\ Commit(delete_trip(DB, t))
    /\ last' = Response("delete_trip", 0, t, Deleted(DB, delete_trip(DB, t)))

OrmEvents ==
    {EventData("driving", 1, 2, 3, "a1", 45),
     EventData("driving", 2, 1, 5, "a2", 45),
     EventData("on_duty", 2, 1, 0, "a2", 45)}

OrmTripReqs ==
    {TripReq(<< >>), TripReq(<<EventData("driving", 1, 2, 3, "a1", 45)>>)}

\* Primary keys are left for another trip with its events.
IdsLeft ==
    /\ NextId(trips) <= MaxId
    /\ NextId(events) <= MaxId
    /\ NextId(locations) <= MaxId

\* The API's writes of trips and events, and deletions through the ORM.
NextOrm ==
    \/ Setup
    \/ IdsLeft /\ \E req \in OrmTripReqs, now \in Timestamps : CreateTrip(req, now)
    \/ IdsLeft /\ \E t \in Ids(trips), data \in OrmEvents : AddEvent(t, data)
    \/ \E e \in Ids(events) : DeleteEvent(e)
    \/ \E l \in Ids(locations) : DeleteLocation(l)
    \/ \E t \in Ids(trips) : DeleteTrip(t)

SpecOrm == Init /\ [][NextOrm]_vars

----------------------------------------------------------------------------
\* Derived locations of a trip (track/models.py) and the views made of them
\* (track/serializers.py).  A query ordered by timestamp gives the rows of
\* equal timestamp in an order the database chooses, so first() of it is any
\* of them: each operator gives the set of the values it may return, a null
\* result being NoId.

Min(S) == CHOOSE x \in S : \A y \in S : x <= y

\* order_by("timestamp").first()
FirstByTimestamp(rows) == {e \in rows : \A o \in rows : e.timestamp <= o.timestamp}

\* order_by("-timestamp").first()
LastByTimestamp(rows) == {e \in rows : \A o \in rows : e.timestamp >= o.timestamp}

\* Trip.origin_location taken from the event inserted first (the smallest
\* primary key), whatever its timestamp.
origin_location_first_inserted(evts, tripId) ==
    LET rows == EventsOf(evts, tripId)
    IN IF rows = {} THEN {NoId}
       ELSE {e.location : e \in {x \in rows : \A o \in rows : x.id <= o.id}}

\* Trip.origin_location
origin_location(evts, tripId) ==
    LET first_event == FirstByTimestamp(EventsOf(evts, tripId))
    IN IF first_event = {} THEN {NoId} ELSE {e.location : e \in first_event}

\* Trip.destination_location
destination_location(evts, tripId) ==
    LET last_driving_event ==
            LastByTimestamp({e \in EventsOf(evts, tripId) :
                                 e.event_type \in {"driving_start", "driving_end"}})
    IN IF last_driving_event = {} THEN {NoId}
       ELSE {e.location : e \in last_driving_event}

\* TripSerializer.get_pickup_location: the property is read again for the
\* test and for each of the three fields, each read a query of its own.  A
\* null view is the empty sequence, a view a sequence of one record.
get_pickup_location(locs, evts, tripId) ==
    IF origin_location(evts, tripId) = {NoId} THEN {<< >>}
    ELSE {<<[address |-> Row(locs, a).address,
             lat |-> Row(locs, b).latitude,
             lng |-> Row(locs, c).longitude]>> :
              a \in origin_location(evts, tripId),
              b \in origin_location(evts, tripId),
              c \in origin_location(evts, tripId)}

\* TripViewSet.retrieve (RetrieveModelMixin with TripSerializer): the
\* derived locations of the trip as the response carries them.
RetrieveTrip(t) ==
    /\ Alone
    /\ t \in Ids(trips)
    /\ UNCHANGED tables
    /\ \E origin \in origin_location(events, t),
          destination \in destination_location(events, t),
          pickup \in get_pickup_location(locations, events, t) :
          last' = Response("retrieve_trip", HTTP_200_OK, t,
                           [origin_location |-> origin,
                            destination_location |-> destination,
                            pickup_location |-> pickup])

\* The active listing with its filter left out.
active_unfiltered(trps) == trps

\* TripViewSet.active: self.get_queryset().filter(is_completed=False)
active(trps) == {t \in trps : t.is_completed = FALSE}

ActiveTrips ==
    /\ Alone
    /\ UNCHANGED tables
    /\ last' = Response("active", HTTP_200_OK, NoId, Ids(active(trips)))

\* The slice [:50] of TripEventViewSet.recent.
RecentLimit == 50

\* TripEventViewSet.get_queryset: the events of the trip when the query
\* parameter trip is given (NoId: not given), else all events.
get_queryset(evts, trip_id) ==
    IF trip_id # NoId THEN {e \in evts : e.trip = trip_id} ELSE evts

\* The sequences a query ordered by "-timestamp" may give for the rows.
OrderedNewestFirst(rows) ==
    {q \in [1..Cardinality(rows) -> rows] :
        /\ \A i, j \in DOMAIN q : i # j => q[i] # q[j]
        /\ \A i, j \in DOMAIN q : i < j => q[i].timestamp >= q[j].timestamp}

\* TripEventViewSet.recent: since = now - hours; the events of the queryset
\* with timestamp >= since, newest first, at most 50.
recent(evts, trip_id, hours, now) ==
    LET since == now - hours
        recent_events == {e \in get_queryset(evts, trip_id) : e.timestamp >= since}
    IN {SubSeq(q, 1, Min({RecentLimit, Len(q)})) :
            q \in OrderedNewestFirst(recent_events)}

RecentEvents(trip_id, hours, now) ==
    /\ Alone
    /\ UNCHANGED tables
    /\ \E result \in recent(events, trip_id, hours, now) :
          last' = Response("recent", HTTP_200_OK, trip_id,
                           [hours |-> hours, now |-> now, events |-> result])

\* The requests of the read endpoints, with the writes they read.
ViewEvents ==
    {EventData("driving", ts, 2, 3, a, 45) : ts \in Timestamps, a \in ApiAddresses}

Clock == {1, 2}
RecentHours == {0, 1}

NextViews ==
    \/ Setup
    \/ \E now \in Timestamps : CreateTrip(TripReq(<< >>), now)
    \/ \E t \in Ids(trips), data \in ViewEvents : AddEvent(t, data)
    \/ \E t \in Ids(trips), req \in ApiTripPatches : UpdateTrip(t, req)
    \/ \E t \in Ids(trips) : Complete(t)
    \/ \E t \in Ids(trips) : RetrieveTrip(t)
    \/ ActiveTrips
    \/ \E t \in Ids(trips) \cup {NoId}, hours \in RecentHours, now \in Clock :
          RecentEvents(t, hours, now)

SpecViews == Init /\ [][NextViews]_vars

----------------------------------------------------------------------------
\* The seed command (track/management/commands/seed.py).  Its random values
\* are drawn from small pools; a float is an integer of its range.

\* event_types of create_trip_events
event_types ==
    {"driving", "on_duty", "off_duty", "sleeper", "rest_break", "fuel_stop",
     "meal_break", "inspection", "loading", "unloading", "other"}

\* The pools the random values are drawn from.
SeedAddresses == {"s1"}
SeedTypes == {"driving", "other"} \cap event_types
SeedNums == {0, 1}

\* num_events = randint(3, 10), as far as the event rows reach.
SeedCounts(stored, tripIds) ==
    3..Min({10, MaxEvents - stored - 3 * (Cardinality(tripIds) - 1)})

\* duration and miles_driven of a seeded event of the type.
SeedDuration(type) ==
    IF type \in {"driving", "on_duty", "off_duty", "sleeper"} THEN 2 ELSE 0

SeedMiles(type) == IF type = "driving" THEN 10 ELSE 0

\* bulk_create(..., ignore_conflicts=True) of Locations: the addresses not
\* stored yet become rows.
RECURSIVE create_locations(_, _)
create_locations(locs, addrs) ==
    IF addrs = {} THEN locs
    ELSE LET a == CHOOSE x \in addrs : TRUE
             rows == IF \E l \in locs : l.address = a THEN locs
                     ELSE locs \cup {[id |-> NextId(locs), address |-> a,
                                      latitude |-> 45, longitude |-> 0]}
         IN create_locations(rows, addrs \ {a})

\* create_drivers(num) with one random driver: a driver_initial or
\* license_number already stored is a conflict, which is ignored.
create_drivers(rows, num) ==
    IF num = 0 \/ \E d \in rows : d.driver_initial = "SD" \/ d.license_number = "LIC1"
    THEN rows
    ELSE rows \cup {[id |-> NextId(rows), driver_initial |-> "SD",
                     full_name |-> "Seed Driver", license_number |-> "LIC1"]}

\* create_carriers(num // 2 or 1): one carrier for num 0 and 1.
create_carriers(rows) ==
    IF \E c \in rows : c.name = "Seed Co" \/ c.dot_number = "DOT1"
    THEN rows
    ELSE rows \cup {[id |-> NextId(rows), name |-> "Seed Co", dot_number |-> "DOT1"]}

\* create_vehicles(carriers, num) with carrier = choice(carriers).
create_vehicles(rows, num, carrier) ==
    IF num = 0 \/ \E v \in rows : v.truck_number = "TRK-9"
    THEN rows
    ELSE rows \cup {[id |-> NextId(rows), truck_number |-> "TRK-9",
                     carrier |-> carrier]}

\* create_trips(drivers, vehicles, num): Trip.objects.bulk_create of Trip
\* objects with the model's defaults for the totals.
create_trips(rows, num, driver, co_driver, vehicle, is_completed) ==
    IF num = 0 THEN rows
    ELSE rows \cup {[id |-> NextId(rows),
                     driver |-> driver,
                     co_driver |-> co_driver,
                     vehicle |-> vehicle,
                     total_miles_driving |-> 0,
                     total_mileage_today |-> 0,
                     total_driving_hours |-> 0,
                     total_on_duty_hours |-> 0,
                     total_off_duty_hours |-> 0,
                     total_sleeper_hours |-> 0,
                     is_completed |-> is_completed]}

\* The inner loop of create_trip_events for one trip: one TripEvent object
\* per drawn (event_type, location), the timestamp advanced by
\* max(duration, 1) after each.
RECURSIVE trip_events(_, _, _, _)
trip_events(evts, tripId, drawn, timestamp) ==
    IF drawn = << >> THEN evts
    ELSE LET type == Head(drawn)[1]
             row == [id |-> NextId(evts),
                     trip |-> tripId,
                     location |-> Head(drawn)[2],
                     event_type |-> type,
                     timestamp |-> timestamp,
                     duration |-> SeedDuration(type),
                     miles_driven |-> SeedMiles(type)]
         IN trip_events(evts \cup {row}, tripId, Tail(drawn),
                        timestamp + Max({SeedDuration(type), 1}))

\* create_trip_events(trips, locations): the events of every stored trip
\* (taken by ascending id here; the command takes them by date) are built
\* and stored with TripEvent.objects.bulk_create, which inserts the rows
\* without calling TripEvent.save.
RECURSIVE create_trip_events(_, _, _, _)
create_trip_events(evts, tripIds, drawn, now) ==
    IF tripIds = {} THEN evts
    ELSE LET t == Min(tripIds)
         IN create_trip_events(trip_events(evts, t, drawn[t], now),
                               tripIds \ {t}, drawn, now)

\* The event rows the command would add to the trips.
RECURSIVE SeedEventCount(_, _)
SeedEventCount(tripIds, drawn) ==
    IF tripIds = {} THEN 0
    ELSE LET t == CHOOSE x \in tripIds : TRUE
         IN Len(drawn[t]) + SeedEventCount(tripIds \ {t}, drawn)

\* Command.handle with --num: locations, drivers, carriers, vehicles and
\* trips are created, then events for all stored trips.  choice() of an
\* empty list raises IndexError, which ends the command (exit status 1)
\* with what it has stored by then.
Seed(num, now) ==
    /\ Alone
    /\ Cardinality(trips) + num <= MaxTrips
    /\ LET locs == create_locations(locations,
                       IF num = 0 THEN {} ELSE SeedAddresses)
           drvs == create_drivers(drivers, num)
           cars == create_carriers(carriers)
       IN \E carrier \in Ids(cars) :
          LET vehs == create_vehicles(vehicles, num, carrier)
          IN \E driver \in (IF num = 0 THEN {NoId} ELSE Ids(drvs)),
                     co_driver \in (IF num = 0 THEN {NoId} ELSE Ids(drvs) \cup {NoId}),
                     vehicle \in (IF num = 0 THEN {NoId} ELSE Ids(vehs)),
                     is_completed \in (IF num = 0 THEN {FALSE} ELSE BOOLEAN) :
             LET trps == create_trips(trips, num, driver, co_driver,
                                      vehicle, is_completed)
             IN /\ locations' = locs /\ drivers' = drvs /\ carriers' = cars
                /\ vehicles' = vehs /\ trips' = trps
                /\ IF trps # {} /\ locs = {}
                   THEN /\ UNCHANGED events
                        /\ last' = Response("seed", 1, NoId, [num |-> num])
                   ELSE \E drawn \in [Ids(trps) ->
                              UNION {[1..n -> SeedTypes \X Ids(locs)] :
                                  n \in SeedCounts(Cardinality(events), Ids(trps))}] :
                          /\ Cardinality(events)
                                 + SeedEventCount(Ids(trps), drawn) <= MaxEvents
                          /\ events' = create_trip_events(events, Ids(trps),
                                                          drawn, now)
                          /\ last' = Response("seed", 0, NoId, [num |-> num])

\* The requests made where the seed command runs: events of the types the
\* destination lookup filters on, beside a stored type.
SeedApiEvents ==
    {EventData("driving", 2, 2, 3, "a1", 45),
     EventData("driving_start", 1, 0, 0, "a1", 45),
     EventData("driving_end", 2, 0, 0, "a2", 45)}

SeedTripReqs ==
    {TripReq(<< >>),
     TripReq(<<EventData("driving_end", 2, 0, 0, "a2", 45)>>)}

SeedEventPatches ==
    {("event_type" :> "driving_end"),
     ("event_type" :> "driving") @@ ("duration" :> 2) @@ ("miles_driven" :> 10)}

\* The seed command, and the API's writes of trips and events.
NextSeed ==
    \/ \E num \in SeedNums, now \in Timestamps : Seed(num, now)
    \/ \E req \in SeedTripReqs, now \in Timestamps : CreateTrip(req, now)
    \/ \E t \in Ids(trips), data \in SeedApiEvents :
          Cardinality(events) < MaxEvents /\ AddEvent(t, data)
    \/ \E e \in Ids(events), req \in SeedEventPatches : UpdateEvent(e, req)

SpecSeed == Init /\ [][NextSeed]_vars

----------------------------------------------------------------------------
\* What the claims are stated with.

\* The sum of a field over a set of rows, 0 over no row.
RECURSIVE Total(_, _)
Total(rows, field) ==
    IF rows = {} THEN 0
    ELSE LET r == CHOOSE x \in rows : TRUE
         IN r[field] + Total(rows \ {r}, field)

\* The events of a trip that have the given type.
TypedEvents(tripId, type) ==
    {e \in events : e.trip = tripId /\ e.event_type = type}

\* The five aggregated totals of a trip row agree with its stored events.
TotalsMatch(t) ==
    /\ t.total_driving_hours = Total(TypedEvents(t.id, "driving"), "duration")
    /\ t.total_on_duty_hours = Total(TypedEvents(t.id, "on_duty"), "duration")
    /\ t.total_off_duty_hours = Total(TypedEvents(t.id, "off_duty"), "duration")
    /\ t.total_sleeper_hours = Total(TypedEvents(t.id, "sleeper"), "duration")
    /\ t.total_miles_driving = Total(TypedEvents(t.id, "driving"), "miles_driven")

----------------------------------------------------------------------------
\* C1: after any sequence of requests handled one at a time (trip intake,
\* add-event, event update, trip update, complete), every Trip's stored
\* driving, on-duty, off-duty and sleeper hours equal the sum of duration
\* over its events of that type and its total_miles_driving the sum of
\* miles_driven over its driving events; with no such event the total is 0,
\* never null.
C1_TotalsEqualSums == \A t \in trips : TotalsMatch(t)

\* A trip with two driving events, summed, and a sleeper total of 0 with no
\* sleeper event, after an event update.
C1_Witness ==
    /\ last.op = "update_event"
    /\ last.status = HTTP_200_OK
    /\ \E t \in trips :
          /\ Cardinality(TypedEvents(t.id, "driving")) = 2
          /\ t.total_driving_hours = 4
          /\ t.total_miles_driving = 6
          /\ TypedEvents(t.id, "sleeper") = {}
          /\ t.total_sleeper_hours = 0

----------------------------------------------------------------------------
\* Location data and event data that are well formed on their own: what a
\* client may expect to be accepted.
CoordinatesInRange(data) ==
    /\ MinLatitude <= data.latitude /\ data.latitude <= MaxLatitude
    /\ MinLongitude <= data.longitude /\ data.longitude <= MaxLongitude

WellFormedEvent(data) ==
    /\ data.event_type \in EVENT_TYPE_CHOICES
    /\ data.duration >= 0
    /\ data.miles_driven >= 0
    /\ CoordinatesInRange(data.location_data)

\* C2: creating a TripEvent, through add-event or through trip intake, whose
\* location data carries the address of an already stored Location succeeds
\* without a new Location row: the number of Locations is unchanged and the
\* new event's location is the existing row.
C2_ExistingAddressReused ==
    [][ \A l \in locations :
          ( \/ /\ last'.op = "add_event"
               /\ WellFormedEvent(last'.req)
               /\ last'.req.location_data.address = l.address
            \/ /\ last'.op = "create_trip"
               /\ TripCreateIsValid(DB, last'.req)
               /\ LegacyFields \cap DOMAIN last'.req = {}
               /\ Len(last'.req.initial_events) = 1
               /\ WellFormedEvent(last'.req.initial_events[1])
               /\ last'.req.initial_events[1].location_data.address = l.address )
          => /\ last'.status = HTTP_201_CREATED
             /\ Cardinality(locations') = Cardinality(locations)
             /\ \E e \in events' \ events :
                   e.trip = last'.trip /\ e.location = l.id ]_vars

\* The number of nested events a creation request carries.
NestedCount(req) ==
    Len(Get(req, "initial_events", << >>)) + Cardinality(LegacyFields \cap DOMAIN req)

\* Some nested event of the request fails validation: an initial_events
\* entry that is not well formed, or a legacy location out of range.
NestedInvalid(req) ==
    \/ \E i \in 1..Len(Get(req, "initial_events", << >>)) :
          ~WellFormedEvent(req.initial_events[i])
    \/ \E f \in LegacyFields \cap DOMAIN req : ~CoordinatesInRange(req[f])

\* C3: trip intake is all-or-nothing.  A creation request that is not
\* answered 201 leaves every table as it was (no Trip, TripEvent, Driver,
\* Carrier, Vehicle or Location of the request remains); a request with a
\* nested event that fails validation is not answered 201; and a request
\* answered 201 has stored every one of its nested events with the new trip
\* (none is passed over).
C3_IntakeAllOrNothing ==
    [][ last'.op = "create_trip" =>
          /\ NestedInvalid(last'.req) => last'.status # HTTP_201_CREATED
          /\ IF last'.status = HTTP_201_CREATED
             THEN /\ last'.trip \in Ids(trips') \ Ids(trips)
                  /\ Cardinality(EventsOf(events', last'.trip))
                        = NestedCount(last'.req)
             ELSE UNCHANGED tables ]_vars

\* A creation that passed the serializer's validation, stored its first
\* event and then met a second entry whose latitude is out of range: it was
\* answered 400 and nothing of it is stored.
C3_Witness ==
    /\ last.op = "create_trip"
    /\ last.status = HTTP_400_BAD_REQUEST
    /\ TripCreateIsValid(DB, last.req)
    /\ Len(last.req.initial_events) = 2
    /\ WellFormedEvent(last.req.initial_events[1])
    /\ ~CoordinatesInRange(last.req.initial_events[2].location_data)
    /\ ~ \E l \in locations :
            l.address = last.req.initial_events[1].location_data.address
    /\ trips = {}

\* The event type a legacy field stands for.
LegacyType(field) ==
    CASE field = "current_location" -> "other"
      [] field = "pickup_location" -> "loading"
      [] field = "dropoff_location" -> "unloading"

\* C4: a trip-creation request that supplies a legacy single-location field
\* creates, for each such field, one TripEvent of the new Trip, timestamped
\* at creation time, of type "other" for current_location, "loading" for
\* pickup_location and "unloading" for dropoff_location, and the request
\* ends with the Trip and these events stored.
C4_LegacyFieldsCreateEvents ==
    ( /\ last.op = "create_trip"
      /\ TripCreateIsValid(DB, last.req)
      /\ LegacyFields \cap DOMAIN last.req # {}
      /\ ~NestedInvalid(last.req) )
    => /\ last.status = HTTP_201_CREATED
       /\ last.trip \in Ids(trips)
       /\ \A f \in LegacyFields \cap DOMAIN last.req :
             Cardinality({e \in EventsOf(events, last.trip) :
                             /\ e.event_type = LegacyType(f)
                             /\ e.timestamp \in Timestamps
                             /\ Row(locations, e.location).address
                                   = last.req[f].address}) = 1

\* C5: a trip-creation request that gives only driver_initial and
\* truck_number, on a store with no Driver, Carrier or Vehicle, is accepted
\* and ends with exactly one Driver with that driver_initial, exactly one
\* Carrier (the default one), exactly one Vehicle with that truck_number
\* under that Carrier and exactly one Trip referencing that Driver and
\* Vehicle.
C5_ShorthandOnlyAccepted ==
    [][ ( /\ last'.op = "create_trip"
          /\ DOMAIN last'.req = {"driver_initial", "truck_number"}
          /\ drivers = {} /\ carriers = {} /\ vehicles = {} )
        => /\ last'.status = HTTP_201_CREATED
           /\ Cardinality(drivers') = 1
           /\ Cardinality(carriers') = 1
           /\ Cardinality(vehicles') = 1
           /\ Cardinality(trips') = 1
           /\ \A d \in drivers', c \in carriers', v \in vehicles', t \in trips' :
                 /\ d.driver_initial = last'.req.driver_initial
                 /\ c.name = "Default Carrier"
                 /\ v.truck_number = last'.req.truck_number
                 /\ v.carrier = c.id
                 /\ t.driver = d.id
                 /\ t.vehicle = v.id ]_vars

\* C6: in trip intake an explicit driver or vehicle reference takes
\* precedence over the shorthand fields: with a driver reference no Driver
\* is looked up or created from driver_initial and the Trip's driver is the
\* reference; with a vehicle reference no Carrier or Vehicle is looked up or
\* created from carrier_name and truck_number and the Trip's vehicle is the
\* reference.
C6_ExplicitReferencesWin ==
    [][ last'.op = "create_trip" =>
          /\ "driver" \in DOMAIN last'.req =>
                /\ drivers' = drivers
                /\ last'.status = HTTP_201_CREATED =>
                      Row(trips', last'.trip).driver = last'.req.driver
          /\ "vehicle" \in DOMAIN last'.req =>
                /\ carriers' = carriers
                /\ vehicles' = vehicles
                /\ last'.status = HTTP_201_CREATED =>
                      Row(trips', last'.trip).vehicle = last'.req.vehicle ]_vars

\* A trip created from a request that gave references and also shorthand
\* fields naming a Driver, a Carrier and a Vehicle that are not stored.
C6_Witness ==
    /\ last.op = "create_trip"
    /\ last.status = HTTP_201_CREATED
    /\ {"driver", "vehicle", "driver_initial", "carrier_name", "truck_number"}
          \subseteq DOMAIN last.req
    /\ ~ \E d \in drivers : d.driver_initial = last.req.driver_initial
    /\ ~ \E c \in carriers : c.name = last.req.carrier_name
    /\ ~ \E v \in vehicles : v.truck_number = last.req.truck_number
    /\ Row(trips, last.trip).driver = last.req.driver

----------------------------------------------------------------------------
FiveTotals ==
    {"total_miles_driving", "total_driving_hours", "total_on_duty_hours",
     "total_off_duty_hours", "total_sleeper_hours"}

SixTotals == FiveTotals \cup {"total_mileage_today"}

\* What the aggregation recompute gives a total of trip u from the events
\* stored after the step: the sums for the five it assigns; it assigns no
\* total_mileage_today, which is left at the model field's default.
RecomputeOutput(u, total) ==
    CASE total = "total_driving_hours" ->
            Total({e \in events' : e.trip = u.id /\ e.event_type = "driving"}, "duration")
      [] total = "total_on_duty_hours" ->
            Total({e \in events' : e.trip = u.id /\ e.event_type = "on_duty"}, "duration")
      [] total = "total_off_duty_hours" ->
            Total({e \in events' : e.trip = u.id /\ e.event_type = "off_duty"}, "duration")
      [] total = "total_sleeper_hours" ->
            Total({e \in events' : e.trip = u.id /\ e.event_type = "sleeper"}, "duration")
      [] total = "total_miles_driving" ->
            Total({e \in events' : e.trip = u.id /\ e.event_type = "driving"}, "miles_driven")
      [] total = "total_mileage_today" -> 0

\* A trip-creation or trip-update step sets none of the given totals from
\* the request: a trip stored before the step keeps them, and a trip the
\* step created has them as the recompute gives them.
NotClientSet(totals) ==
    last'.op \in {"create_trip", "update_trip"} =>
        \A u \in trips' : \A total \in totals :
            IF u.id \in Ids(trips) THEN u[total] = Row(trips, u.id)[total]
            ELSE u[total] = RecomputeOutput(u, total)

----------------------------------------------------------------------------
\* C8: under concurrent event insertion for one Trip the stored totals are
\* guaranteed correct only if the writes are serialized.  As long as no two
\* add-event requests have been in flight together, whenever no request is
\* in flight every trip's stored totals equal the sums over its stored
\* events; when the insert, aggregate and save steps of two requests
\* interleave, a final state whose stored totals differ from the sums is
\* reachable (C8_LostUpdate).
C8_SerializedTotalsCorrect ==
    (Quiet /\ ~overlapped) => \A t \in trips : TotalsMatch(t)

\* Two add-event requests on one trip interleaved, both answered, and the
\* trip's stored driving hours are those of one event while two are stored.
C8_LostUpdate ==
    /\ Quiet
    /\ overlapped
    /\ \E t \in trips :
          /\ Cardinality(TypedEvents(t.id, "driving")) = 2
          /\ t.total_driving_hours
                < Total(TypedEvents(t.id, "driving"), "duration")
          /\ ~TotalsMatch(t)

----------------------------------------------------------------------------
\* C9: for every Trip, total_driving_hours equals the sum of duration over
\* its remaining driving events also after one of its TripEvents is deleted,
\* directly or by cascade from the deletion of its Location: the deletion
\* triggers the recompute of the parent trip's totals.
C9_DrivingHoursAfterDelete ==
    last.op \in {"delete_event", "delete_location"} =>
        \A t \in trips :
            t.total_driving_hours
               = Total(TypedEvents(t.id, "driving"), "duration")

\* C10: deleting a Trip deletes every TripEvent of that trip and nothing
\* else: the Locations the events were at, the Drivers, the Vehicles and
\* Carriers, and the rows (events and totals) of every other trip are
\* unchanged.
C10_DeleteTripFrame ==
    [][ last'.op = "delete_trip" =>
          /\ last'.trip \in Ids(trips)
          /\ trips' = {t \in trips : t.id # last'.trip}
          /\ events' = {e \in events : e.trip # last'.trip}
          /\ locations' = locations
          /\ drivers' = drivers
          /\ carriers' = carriers
          /\ vehicles' = vehicles ]_vars

\* A trip with an event was deleted: its event is gone, the Location the
\* event was at is stored with no event left at it, the trip's Driver and
\* Vehicle are stored, and another trip still has its event and its totals.
C10_Witness ==
    /\ last.op = "delete_trip"
    /\ last.req.TripEvent >= 1
    /\ last.trip \notin Ids(trips)
    /\ EventsOf(events, last.trip) = {}
    /\ \E l \in locations : ~ \E e \in events : e.location = l.id
    /\ drivers # {} /\ vehicles # {}
    /\ \E t \in trips :
          /\ EventsOf(events, t.id) # {}
          /\ t.total_driving_hours > 0
          /\ TotalsMatch(t)

----------------------------------------------------------------------------
\* C11: a Trip's destination_location is the location of its most recent
\* event of type "driving_start" or "driving_end"; no event stored by trip
\* intake, add-event, event update or the seed command has either type, so
\* the destination_location of every Trip is null in every reachable state.
C11_DestinationAlwaysNull ==
    /\ \A e \in events : e.event_type \notin {"driving_start", "driving_end"}
    /\ \A t \in trips : destination_location(events, t.id) = {NoId}

\* An event update asking for "driving_end" was refused on a seeded trip
\* that also holds a driving event added through add-event.
C11_Witness ==
    /\ last.op = "update_event"
    /\ last.status = HTTP_400_BAD_REQUEST
    /\ last.req.event_type = "driving_end"
    /\ Cardinality(EventsOf(events, last.trip)) = MaxEvents
    /\ \E e \in EventsOf(events, last.trip) :
          e.event_type = "driving" /\ e.miles_driven = 3

----------------------------------------------------------------------------
\* C12: the origin_location of a Trip is the location of the trip's event
\* with the earliest timestamp, in whatever order the events were inserted,
\* and is null exactly when the trip has no events; the pickup_location view
\* of the trip is derived from it (null with it, else the address, latitude
\* and longitude of such a location).
C12_OriginIsEarliest ==
    last.op = "retrieve_trip" =>
        LET mine == {e \in events : e.trip = last.trip}
            earliest == {e \in mine : \A x \in mine : e.timestamp <= x.timestamp}
            at == {l \in locations : \E e \in earliest : e.location = l.id}
            origin == last.req.origin_location
            pickup == last.req.pickup_location
        IN /\ (origin = NoId) <=> (mine = {})
           /\ origin # NoId => \E e \in earliest : e.location = origin
           /\ (Len(pickup) = 0) <=> (mine = {})
           /\ Len(pickup) = 1 =>
                 /\ \E l \in at : l.address = pickup[1].address
                 /\ \E l \in at : l.latitude = pickup[1].lat
                 /\ \E l \in at : l.longitude = pickup[1].lng

\* A trip was retrieved whose event inserted last has the earliest
\* timestamp: the origin and the pickup view are that event's location.
C12_Witness ==
    /\ last.op = "retrieve_trip"
    /\ \E a, b \in events :
          /\ a.trip = last.trip /\ b.trip = last.trip
          /\ a.id < b.id /\ b.timestamp < a.timestamp
          /\ last.req.origin_location = b.location
          /\ Len(last.req.pickup_location) = 1
          /\ last.req.pickup_location[1].address = Row(locations, b.location).address

----------------------------------------------------------------------------
\* C13: when trip intake is given the truck_number shorthand and no vehicle
\* reference, the vehicle is resolved from the shorthand: the Trip's vehicle
\* is the Vehicle with that truck_number, and that Vehicle belongs to the
\* Carrier resolved in the request (the one named carrier_name if given,
\* else the first Carrier stored, else a new "Default Carrier"), also when a
\* Vehicle with that truck_number was stored before.
C13_ShorthandVehicleCarrier ==
    [][ ( /\ last'.op = "create_trip"
          /\ "truck_number" \in DOMAIN last'.req
          /\ "vehicle" \notin DOMAIN last'.req )
        => /\ last'.status = HTTP_201_CREATED
           /\ LET v == Row(vehicles', Row(trips', last'.trip).vehicle)
                  name == IF "carrier_name" \in DOMAIN last'.req
                          THEN last'.req.carrier_name
                          ELSE IF carriers # {}
                               THEN (CHOOSE c \in carriers :
                                         \A o \in carriers : c.id <= o.id).name
                               ELSE "Default Carrier"
              IN /\ v.truck_number = last'.req.truck_number
                 /\ \E c \in carriers' : c.name = name /\ v.carrier = c.id ]_vars

----------------------------------------------------------------------------
----------------------------------------------------------------------------
\* C15: the recent-events query with hours = N returns only events whose
\* timestamp is within the last N hours (not before now - N and not after
\* now), newest first, at most 50, and only events of the trip given by the
\* trip query parameter.
C15_RecentWithinWindow ==
    last.op = "recent" =>
        LET result == last.req.events
        IN /\ \A i \in DOMAIN result :
                 /\ result[i].timestamp >= last.req.now - last.req.hours
                 /\ result[i].timestamp <= last.req.now
                 /\ last.trip # NoId => result[i].trip = last.trip
                 /\ result[i] \in events
           /\ \A i, j \in DOMAIN result :
                 i < j => result[i].timestamp >= result[j].timestamp
           /\ Len(result) <= 50

----------------------------------------------------------------------------
\* C17: once a complete request on a Trip has finished, the trip's stored
\* is_completed stays true through every add-event request on the trip,
\* also one that loaded the trip before the complete and saves it after;
\* and the save of a complete request leaves the trip's stored totals as
\* they are, never putting older values in place of those an add-event
\* wrote meanwhile.
C17_CompleteAndAddEventKeepEachOther ==
    [][ /\ \A t \in trips : \A u \in trips' :
              (t.id = u.id /\ t.is_completed) => u.is_completed
        /\ last'.op = "complete" =>
              \A t \in trips : \A u \in trips' :
                  t.id = u.id => \A f \in FiveTotals : u[f] = t[f]
      ]_vars

----------------------------------------------------------------------------
\* C16: a Trip's totals are recomputed on every path that stores TripEvents:
\* after the seed command has stored its events, every trip's stored totals
\* equal the sums of duration and miles_driven over its events by type.
C16_SeededTotalsEqualSums ==
    last.op = "seed" => \A t \in trips : TotalsMatch(t)

----------------------------------------------------------------------------
\* C18: an event-creation request that ends in an error (add-event, or a
\* create on the trip-events endpoint, whose schema carries no trip) leaves
\* the store as it was: no Location and no TripEvent is added and no Trip's
\* totals change.
C18_FailedEventCreationChangesNothing ==
    [][ ( /\ last'.op \in {"add_event", "create_event"}
          /\ last'.status # HTTP_201_CREATED )
        => /\ locations' = locations
           /\ events' = events
           /\ trips' = trips ]_vars

====
